---- MODULE Spec2Model ----
(***************************************************************************)
(* Model of back.py: the per-IP sliding-window rate limiter (_rate), the   *)
(* upstream wrapper (call_openai_with_retry) and the /chat handler.        *)
(*                                                                         *)
(* Time is an integer clock read by time.time().  Request threads are the  *)
(* processes of Procs; each line of _rate that touches shared state is one *)
(* step, so that threads of the framework's pool may interleave.           *)
(***************************************************************************)
EXTENDS Integers, Sequences, FiniteSets, TLC

\* ---------------------------------------------------------------- bounds
\* back.py:53 sets WINDOW_SECONDS, MAX_REQ = 60, 30; the model keeps the
\* code's comparisons and scales both numbers down.
WINDOW_SECONDS == 3
MAX_REQ == 2
\* back.py:69
HISTORY_LIMIT == 8

\* the last value of the clock
MaxTime == 3
\* calls of _rate in SpecSeq
MaxReqs == 4
\* calls of _rate in SpecConc
MaxConc == 3
\* /chat requests in Spec
MaxChats == 3
\* the longest messages list of a request
MaxMsgs == 9
\* the largest retry budget of a direct call of the wrapper
MaxRetries == 2

Procs == {"t1", "t2"}
Workers == {"t1"}
Hosts == {"h1"}
NoClient == "None"
Clients == Hosts \cup {"unknown"}

\* ---------------------------------------------------------------- values
\* the system message of lines 88-99 and 154; caller messages are 1, 2, ...
SYSTEM_PROMPT == 0
\* the detail of line 59
TOO_MANY == "Too Many Requests. Please retry later."
\* the detail of line 163 and the placeholder of line 159 (in the source both
\* are Chinese text; each is one fixed string)
GENERIC_503 == "busy or upstream provider error, retry later"
PLACEHOLDER == <<"(no content)">>

Transient == {"APIConnectionError", "RateLimitError"}
Terminal == {"Exception"}
ErrKinds == Transient \cup Terminal
NoErr == [kind |-> "None", at |-> 0, detail |-> ""]
MkErr(k, n) == [kind |-> k, at |-> n, detail |-> "upstream detail"]

NoContent == [isNone |-> TRUE, text |-> <<>>]
Text(s) == [isNone |-> FALSE, text |-> s]
Contents == {NoContent, Text(<<>>), Text(<<" ">>), Text(<<" ", "x", " ">>), Text(<<"x">>)}
NoResp == [status |-> 0, detail |-> "", reply |-> <<>>]

\* clock, bucket and the per-thread pc and locals are the program's state;
\* log (every decision of _rate, in order), adm (the decision on the current
\* request), calls (the outcomes of the upstream attempts of the current call),
\* waits (its backoff sleeps) and nreq (requests so far) record what happened.
VARIABLES clock, bucket, pc, ip, now, xs, body, msgs, retries, idx, attempt,
          last_err, result, resp, logged, log, adm, calls, waits, nreq

vars == <<clock, bucket, pc, ip, now, xs, body, msgs, retries, idx, attempt,
          last_err, result, resp, logged, log, adm, calls, waits, nreq>>

rateVars == <<ip, now, xs, adm>>
wrapVars == <<retries, idx, attempt, last_err, result, calls, waits>>
chatVars == <<body, msgs, resp, logged>>

\* ------------------------------------------------------- pure functions
\* _bucket.get(ip, [])
Get(b, c) == IF c \in DOMAIN b THEN b[c] ELSE <<>>

\* a write that replaces the whole map by the one entry
Put_only(b, c, v) == [k \in {c} |-> v]

\* _bucket[ip] = xs
Put(b, c, v) == [k \in (DOMAIN b) \cup {c} |-> IF k = c THEN v ELSE b[k]]

\* a comparison that keeps a timestamp exactly WINDOW_SECONDS old
Fresh_le(t, n) == n - t <= WINDOW_SECONDS

\* the test of the list comprehension: now - t < WINDOW_SECONDS
Fresh(t, n) == n - t < WINDOW_SECONDS

\* [t for t in ts if now - t < WINDOW_SECONDS], element by element
RECURSIVE Prune(_, _)
Prune(ts, n) ==
    IF ts = <<>> THEN <<>>
    ELSE IF Fresh(Head(ts), n) THEN <<Head(ts)>> \o Prune(Tail(ts), n)
         ELSE Prune(Tail(ts), n)

\* a threshold test that lets one request too many through
OverLimit_gt(ts) == Len(ts) > MAX_REQ

\* len(xs) >= MAX_REQ
OverLimit(ts) == Len(ts) >= MAX_REQ

\* req.client.host if req.client else "unknown"
ClientIp(h) == IF h = NoClient THEN "unknown" ELSE h

\* s[:n], the oldest n instead of the most recent
LastN_first(s, n) == IF Len(s) <= n THEN s ELSE SubSeq(s, 1, n)

\* s[-n:] for n > 0
LastN(s, n) == IF Len(s) <= n THEN s ELSE SubSeq(s, Len(s) - n + 1, Len(s))

\* [{"role": "system", ...}] + history
BuildMsgs(b) == <<SYSTEM_PROMPT>> \o LastN(b, HISTORY_LIMIT)

IsSpace(ch) == ch = " "

RECURSIVE LStrip(_)
LStrip(s) == IF s # <<>> /\ IsSpace(Head(s)) THEN LStrip(Tail(s)) ELSE s

RECURSIVE RStrip(_)
RStrip(s) ==
    IF s # <<>> /\ IsSpace(s[Len(s)]) THEN RStrip(SubSeq(s, 1, Len(s) - 1)) ELSE s

\* str.strip()
Strip(s) == RStrip(LStrip(s))

\* the stripped text as it is, also when nothing is left of it
ReplyOf_raw(c) == IF c.isNone THEN <<>> ELSE Strip(c.text)

\* (content or "").strip(), then reply or placeholder
ReplyOf(c) ==
    LET raw == IF c.isNone \/ c.text = <<>> THEN <<>> ELSE c.text
        r == Strip(raw)
    IN IF r = <<>> THEN PLACEHOLDER ELSE r

\* ----------------------------------------------------------------- Init
Init ==
    /\ clock = 0
    /\ bucket = <<>>
    /\ pc = [p \in Procs |-> "idle"]
    /\ ip = [p \in Procs |-> "unknown"]
    /\ now = [p \in Procs |-> 0]
    /\ xs = [p \in Procs |-> <<>>]
    /\ body = [p \in Procs |-> <<>>]
    /\ msgs = [p \in Procs |-> <<>>]
    /\ retries = [p \in Procs |-> 0]
    /\ idx = [p \in Procs |-> 0]
    /\ attempt = [p \in Procs |-> 0]
    /\ last_err = [p \in Procs |-> NoErr]
    /\ result = [p \in Procs |-> NoContent]
    /\ resp = [p \in Procs |-> NoResp]
    /\ logged = [p \in Procs |-> NoErr]
    /\ log = <<>>
    /\ adm = [p \in Procs |-> "none"]
    /\ calls = [p \in Procs |-> <<>>]
    /\ waits = [p \in Procs |-> 0]
    /\ nreq = 0

\* the clock of time.time() advances
Tick ==
    /\ clock < MaxTime
    /\ clock' = clock + 1
    /\ UNCHANGED <<bucket, pc, rateVars, wrapVars, chatVars, log, nreq>>

\* ---------------------------------------------------------------- _rate
\* line 56: now = time.time()
Rate56(p) ==
    /\ pc[p] = "rate56"
    /\ now' = [now EXCEPT ![p] = clock]
    /\ pc' = [pc EXCEPT ![p] = "rate57"]
    /\ UNCHANGED <<clock, bucket, ip, xs, adm, wrapVars, chatVars, log, nreq>>

\* line 57: xs = [t for t in _bucket.get(ip, []) if now - t < WINDOW_SECONDS]
Rate57(p) ==
    /\ pc[p] = "rate57"
    /\ xs' = [xs EXCEPT ![p] = Prune(Get(bucket, ip[p]), now[p])]
    /\ pc' = [pc EXCEPT ![p] = "rate58"]
    /\ UNCHANGED <<clock, bucket, ip, now, adm, wrapVars, chatVars, log, nreq>>

\* lines 58-59: if len(xs) >= MAX_REQ: raise HTTPException(429, ...); the
\* locals of _rate end with its frame
Rate58(p) ==
    /\ pc[p] = "rate58"
    /\ IF OverLimit(xs[p])
       THEN /\ pc' = [pc EXCEPT ![p] = "rate_raise"]
            /\ log' = Append(log, [ip |-> ip[p], now |-> now[p], ok |-> FALSE])
            /\ adm' = [adm EXCEPT ![p] = "rejected"]
            /\ now' = [now EXCEPT ![p] = 0]
            /\ xs' = [xs EXCEPT ![p] = <<>>]
       ELSE /\ pc' = [pc EXCEPT ![p] = "rate60"]
            /\ UNCHANGED <<log, now, xs, adm>>
    /\ UNCHANGED <<clock, bucket, ip, wrapVars, chatVars, nreq>>

\* line 60: xs.append(now)
Rate60(p) ==
    /\ pc[p] = "rate60"
    /\ xs' = [xs EXCEPT ![p] = Append(xs[p], now[p])]
    /\ pc' = [pc EXCEPT ![p] = "rate61"]
    /\ UNCHANGED <<clock, bucket, ip, now, adm, wrapVars, chatVars, log, nreq>>

\* line 61: _bucket[ip] = xs, and _rate returns (its locals end)
Rate61(p) ==
    /\ pc[p] = "rate61"
    /\ bucket' = Put(bucket, ip[p], xs[p])
    /\ pc' = [pc EXCEPT ![p] = "rate_ret"]
    /\ log' = Append(log, [ip |-> ip[p], now |-> now[p], ok |-> TRUE])
    /\ adm' = [adm EXCEPT ![p] = "admitted"]
    /\ now' = [now EXCEPT ![p] = 0]
    /\ xs' = [xs EXCEPT ![p] = <<>>]
    /\ UNCHANGED <<clock, ip, wrapVars, chatVars, nreq>>

RateStep(p) == Rate56(p) \/ Rate57(p) \/ Rate58(p) \/ Rate60(p) \/ Rate61(p)

InRate(p) == pc[p] \in {"rate56", "rate57", "rate58", "rate60", "rate61"}

\* line 55: a thread calls _rate(ip)
CallRate(p, c) ==
    /\ pc[p] \in {"idle", "rate_ret", "rate_raise"}
    /\ nreq < MaxReqs
    /\ nreq' = nreq + 1
    /\ ip' = [ip EXCEPT ![p] = c]
    /\ adm' = [adm EXCEPT ![p] = "none"]
    /\ pc' = [pc EXCEPT ![p] = "rate56"]
    /\ UNCHANGED <<clock, bucket, now, xs, wrapVars, chatVars, log>>

\* no call of _rate is in progress
Quiet == \A q \in Procs : ~InRate(q)

\* a call of _rate that starts when the one before it has ended
SeqCall(p, c) == Quiet /\ CallRate(p, c)

\* _rate checks executed one after the other
NextSeq ==
    \/ Tick
    \/ \E p \in Procs : \E c \in Clients : SeqCall(p, c)
    \/ \E p \in Procs : RateStep(p)

SpecSeq == Init /\ [][NextSeq]_vars

\* a call of _rate that may start while another one is in progress
ConcCall(p, c) == nreq < MaxConc /\ CallRate(p, c)

\* _rate checks of the threads of the pool, interleaved line by line
NextConc ==
    \/ Tick
    \/ \E p \in Procs : \E c \in Clients : ConcCall(p, c)
    \/ \E p \in Procs : RateStep(p)

SpecConc == Init /\ [][NextConc]_vars

\* ------------------------------------------------ call_openai_with_retry
\* line 105: last_err = None, and the iterator of range(retries + 1)
W105(p) ==
    /\ pc[p] = "w105"
    /\ last_err' = [last_err EXCEPT ![p] = NoErr]
    /\ idx' = [idx EXCEPT ![p] = 0]
    /\ pc' = [pc EXCEPT ![p] = "w106"]
    /\ UNCHANGED <<clock, bucket, rateVars, retries, attempt, result, calls, waits,
                   chatVars, log, nreq>>

\* a loop over range(retries): one attempt short
W106_short(p) ==
    /\ pc[p] = "w106"
    /\ IF idx[p] < retries[p]
       THEN /\ attempt' = [attempt EXCEPT ![p] = idx[p]]
            /\ idx' = [idx EXCEPT ![p] = idx[p] + 1]
            /\ pc' = [pc EXCEPT ![p] = "w108"]
       ELSE /\ pc' = [pc EXCEPT ![p] = "w124"]
            /\ UNCHANGED <<attempt, idx>>
    /\ UNCHANGED <<clock, bucket, rateVars, retries, last_err, result, calls, waits,
                   chatVars, log, nreq>>

\* line 106: for attempt in range(retries + 1)
W106(p) ==
    /\ pc[p] = "w106"
    /\ IF idx[p] < retries[p] + 1
       THEN /\ attempt' = [attempt EXCEPT ![p] = idx[p]]
            /\ idx' = [idx EXCEPT ![p] = idx[p] + 1]
            /\ pc' = [pc EXCEPT ![p] = "w108"]
       ELSE /\ pc' = [pc EXCEPT ![p] = "w124"]
            /\ UNCHANGED <<attempt, idx>>
    /\ UNCHANGED <<clock, bucket, rateVars, retries, last_err, result, calls, waits,
                   chatVars, log, nreq>>

\* lines 108-114: the attempt returns a completion, which the wrapper returns
\* (its locals end)
W108Ok(p, c) ==
    /\ pc[p] = "w108"
    /\ result' = [result EXCEPT ![p] = c]
    /\ calls' = [calls EXCEPT ![p] = Append(calls[p], "ok")]
    /\ idx' = [idx EXCEPT ![p] = 0]
    /\ attempt' = [attempt EXCEPT ![p] = 0]
    /\ last_err' = [last_err EXCEPT ![p] = NoErr]
    /\ pc' = [pc EXCEPT ![p] = "w_ret"]
    /\ UNCHANGED <<clock, bucket, rateVars, retries, waits, chatVars, log, nreq>>

\* lines 115-116: except (APIConnectionError, RateLimitError) as e: last_err = e
W115(p, k) ==
    /\ pc[p] = "w108"
    /\ k \in Transient
    /\ last_err' = [last_err EXCEPT ![p] = MkErr(k, Len(calls[p]) + 1)]
    /\ calls' = [calls EXCEPT ![p] = Append(calls[p], k)]
    /\ pc' = [pc EXCEPT ![p] = "w117"]
    /\ UNCHANGED <<clock, bucket, rateVars, retries, idx, attempt, result, waits,
                   chatVars, log, nreq>>

\* a retry test that allows one retry beyond the budget
MayRetry_le(a, r) == a <= r

\* the retry test of line 117: attempt < retries
MayRetry(a, r) == a < r

\* a handler that sleeps after every transient failure
W117_sleep(p) ==
    /\ pc[p] = "w117"
    /\ pc' = [pc EXCEPT ![p] = "w118"]
    /\ UNCHANGED <<clock, bucket, rateVars, wrapVars, chatVars, log, nreq>>

\* lines 117-120: if attempt < retries: sleep, continue; else break
W117(p) ==
    /\ pc[p] = "w117"
    /\ pc' = [pc EXCEPT ![p] = IF MayRetry(attempt[p], retries[p]) THEN "w118" ELSE "w124"]
    /\ UNCHANGED <<clock, bucket, rateVars, wrapVars, chatVars, log, nreq>>

\* lines 118-119: time.sleep(1.5); continue
W118(p) ==
    /\ pc[p] = "w118"
    /\ waits' = [waits EXCEPT ![p] = waits[p] + 1]
    /\ pc' = [pc EXCEPT ![p] = "w106"]
    /\ UNCHANGED <<clock, bucket, rateVars, retries, idx, attempt, last_err, result,
                   calls, chatVars, log, nreq>>

\* a handler that treats every error as retryable
W121_retry(p, k) ==
    /\ pc[p] = "w108"
    /\ k \in Terminal
    /\ last_err' = [last_err EXCEPT ![p] = MkErr(k, Len(calls[p]) + 1)]
    /\ calls' = [calls EXCEPT ![p] = Append(calls[p], k)]
    /\ pc' = [pc EXCEPT ![p] = "w117"]
    /\ UNCHANGED <<clock, bucket, rateVars, retries, idx, attempt, result, waits,
                   chatVars, log, nreq>>

\* lines 121-123: except Exception as e: last_err = e; break
W121(p, k) ==
    /\ pc[p] = "w108"
    /\ k \in Terminal
    /\ last_err' = [last_err EXCEPT ![p] = MkErr(k, Len(calls[p]) + 1)]
    /\ calls' = [calls EXCEPT ![p] = Append(calls[p], k)]
    /\ pc' = [pc EXCEPT ![p] = "w124"]
    /\ UNCHANGED <<clock, bucket, rateVars, retries, idx, attempt, result, waits,
                   chatVars, log, nreq>>

\* line 124: raise last_err (last_err now stands for the exception in flight)
W124(p) ==
    /\ pc[p] = "w124"
    /\ idx' = [idx EXCEPT ![p] = 0]
    /\ attempt' = [attempt EXCEPT ![p] = 0]
    /\ pc' = [pc EXCEPT ![p] = "w_raise"]
    /\ UNCHANGED <<clock, bucket, rateVars, retries, last_err, result, calls, waits,
                   chatVars, log, nreq>>

WrapStep(p) ==
    \/ W105(p)
    \/ W106(p)
    \/ \E c \in Contents : W108Ok(p, c)
    \/ \E k \in Transient : W115(p, k)
    \/ W117(p)
    \/ W118(p)
    \/ \E k \in Terminal : W121(p, k)
    \/ W124(p)

\* a direct caller: call_openai_with_retry(messages, retries=r)
InitRetry ==
    /\ clock = 0
    /\ bucket = <<>>
    /\ pc = [p \in Procs |-> "w105"]
    /\ ip = [p \in Procs |-> "unknown"]
    /\ now = [p \in Procs |-> 0]
    /\ xs = [p \in Procs |-> <<>>]
    /\ body = [p \in Procs |-> <<>>]
    /\ msgs = [p \in Procs |-> <<SYSTEM_PROMPT>>]
    /\ retries \in [Procs -> 0..MaxRetries]
    /\ idx = [p \in Procs |-> 0]
    /\ attempt = [p \in Procs |-> 0]
    /\ last_err = [p \in Procs |-> NoErr]
    /\ result = [p \in Procs |-> NoContent]
    /\ resp = [p \in Procs |-> NoResp]
    /\ logged = [p \in Procs |-> NoErr]
    /\ log = <<>>
    /\ adm = [p \in Procs |-> "none"]
    /\ calls = [p \in Procs |-> <<>>]
    /\ waits = [p \in Procs |-> 0]
    /\ nreq = 0

NextRetry == \E p \in Procs : WrapStep(p)

SpecRetry == InitRetry /\ [][NextRetry]_vars

\* a thread inside the wrapper keeps running, and every attempt returns (the
\* client call has a timeout): its next step is eventually taken
SpecRetryFair == SpecRetry /\ \A p \in Procs : WF_vars(WrapStep(p))

\* ---------------------------------------------------------------- /chat
\* lines 147-150: a request arrives; ip is chosen and _rate(ip) is called
Chat149(p, h, k) ==
    /\ pc[p] = "idle"
    /\ nreq < MaxChats
    /\ nreq' = nreq + 1
    /\ ip' = [ip EXCEPT ![p] = ClientIp(h)]
    /\ body' = [body EXCEPT ![p] = [i \in 1..k |-> i]]
    /\ pc' = [pc EXCEPT ![p] = "rate56"]
    /\ UNCHANGED <<clock, bucket, now, xs, adm, msgs, resp, logged, wrapVars, log>>

\* a handler whose try block also covers _rate(ip): the 429 turns into 503
Chat150Raise_503(p) ==
    /\ pc[p] = "rate_raise"
    /\ resp' = [resp EXCEPT ![p] = [status |-> 503, detail |-> GENERIC_503, reply |-> <<>>]]
    /\ pc' = [pc EXCEPT ![p] = "done"]
    /\ UNCHANGED <<clock, bucket, rateVars, wrapVars, body, msgs, logged, log, nreq>>

\* line 150: the HTTPException of _rate leaves chat; the framework answers 429
Chat150Raise(p) ==
    /\ pc[p] = "rate_raise"
    /\ resp' = [resp EXCEPT ![p] = [status |-> 429, detail |-> TOO_MANY, reply |-> <<>>]]
    /\ pc' = [pc EXCEPT ![p] = "done"]
    /\ UNCHANGED <<clock, bucket, rateVars, wrapVars, body, msgs, logged, log, nreq>>

\* lines 153-157: history, msgs, and the call with retries=1
Chat153(p) ==
    /\ pc[p] = "rate_ret"
    /\ msgs' = [msgs EXCEPT ![p] = BuildMsgs(body[p])]
    /\ retries' = [retries EXCEPT ![p] = 1]
    /\ pc' = [pc EXCEPT ![p] = "w105"]
    /\ UNCHANGED <<clock, bucket, rateVars, idx, attempt, last_err, result, calls, waits,
                   body, resp, logged, log, nreq>>

\* lines 158-159: the reply of a successful call
Chat158(p) ==
    /\ pc[p] = "w_ret"
    /\ resp' = [resp EXCEPT ![p] =
                   [status |-> 200, detail |-> "", reply |-> ReplyOf(result[p])]]
    /\ pc' = [pc EXCEPT ![p] = "done"]
    /\ UNCHANGED <<clock, bucket, rateVars, wrapVars, body, msgs, logged, log, nreq>>

\* a detail that passes the upstream error on
FailureDetail_leak(e) == e.detail

\* the detail of the HTTPException of line 163
FailureDetail(e) == GENERIC_503

\* a failure path that gives the quota back: the newest timestamp of the
\* client is taken out of the map again
Chat160_refund(p) ==
    /\ pc[p] = "w_raise"
    /\ logged' = [logged EXCEPT ![p] = last_err[p]]
    /\ resp' = [resp EXCEPT ![p] =
                   [status |-> 503, detail |-> FailureDetail(last_err[p]), reply |-> <<>>]]
    /\ bucket' = [bucket EXCEPT ![ip[p]] = SubSeq(@, 1, Len(@) - 1)]
    /\ pc' = [pc EXCEPT ![p] = "done"]
    /\ UNCHANGED <<clock, rateVars, wrapVars, body, msgs, log, nreq>>

\* lines 160-163: except Exception as e: log it, raise HTTPException(503, ...)
Chat160(p) ==
    /\ pc[p] = "w_raise"
    /\ logged' = [logged EXCEPT ![p] = last_err[p]]
    /\ resp' = [resp EXCEPT ![p] =
                   [status |-> 503, detail |-> FailureDetail(last_err[p]), reply |-> <<>>]]
    /\ pc' = [pc EXCEPT ![p] = "done"]
    /\ UNCHANGED <<clock, bucket, rateVars, wrapVars, body, msgs, log, nreq>>

\* the framework sends the response; the frame of the handler ends and the
\* thread goes back to the pool
Respond(p) ==
    /\ pc[p] = "done"
    /\ pc' = [pc EXCEPT ![p] = "idle"]
    /\ resp' = [resp EXCEPT ![p] = NoResp]
    /\ logged' = [logged EXCEPT ![p] = NoErr]
    /\ ip' = [ip EXCEPT ![p] = "unknown"]
    /\ adm' = [adm EXCEPT ![p] = "none"]
    /\ body' = [body EXCEPT ![p] = <<>>]
    /\ msgs' = [msgs EXCEPT ![p] = <<>>]
    /\ retries' = [retries EXCEPT ![p] = 0]
    /\ last_err' = [last_err EXCEPT ![p] = NoErr]
    /\ result' = [result EXCEPT ![p] = NoContent]
    /\ calls' = [calls EXCEPT ![p] = <<>>]
    /\ waits' = [waits EXCEPT ![p] = 0]
    /\ UNCHANGED <<clock, bucket, now, xs, idx, attempt, log, nreq>>

ChatStep(p) ==
    \/ \E h \in Hosts \cup {NoClient} : \E k \in 0..MaxMsgs : Chat149(p, h, k)
    \/ Chat150Raise(p)
    \/ Chat153(p)
    \/ Chat158(p)
    \/ Chat160(p)
    \/ Respond(p)

\* /chat requests served by the threads of Workers
Next ==
    \/ Tick
    \/ \E p \in Workers : ChatStep(p)
    \/ \E p \in Workers : RateStep(p)
    \/ \E p \in Workers : WrapStep(p)

Spec == Init /\ [][Next]_vars

\* -------------------------------------------------------------- /health
\* the body {"status": "ok"} of line 133, answered with 200
HEALTH_OK == [status |-> 200, detail |-> "ok", reply |-> <<>>]

\* a health check that goes through the rate limiter first
Health_limited(p) ==
    /\ pc[p] = "idle"
    /\ ip' = [ip EXCEPT ![p] = "unknown"]
    /\ pc' = [pc EXCEPT ![p] = "rate56"]
    /\ UNCHANGED <<clock, bucket, now, xs, adm, wrapVars, chatVars, log, nreq>>

\* lines 131-133: return {"status": "ok"}
Health(p) ==
    /\ pc[p] = "idle"
    /\ resp' = [resp EXCEPT ![p] = HEALTH_OK]
    /\ pc' = [pc EXCEPT ![p] = "done"]
    /\ UNCHANGED <<clock, bucket, rateVars, wrapVars, body, msgs, logged, log, nreq>>

\* the threads that serve /health while those of Workers serve /chat
HealthThreads == Procs \ Workers

\* /chat requests (here without caller messages) and /health requests
NextHealth ==
    \/ Tick
    \/ \E p \in HealthThreads : Health(p) \/ Respond(p)
    \/ \E p \in Workers : \E h \in Hosts \cup {NoClient} : Chat149(p, h, 0)
    \/ \E p \in Workers : Chat150Raise(p) \/ Chat153(p) \/ Chat158(p) \/ Chat160(p)
                               \/ Respond(p)
    \/ \E p \in Workers : RateStep(p)
    \/ \E p \in Workers : WrapStep(p)

SpecHealth == Init /\ [][NextHealth]_vars

\* ================================================================ claims
\* the decisions of _rate on the requests of client c, in order
SubLog(c) == SelectSeq(log, LAMBDA e : e.ip = c)

\* the admitted requests of c with a timestamp in (T - WINDOW_SECONDS, T]
AdmittedIn(c, T) ==
    {i \in DOMAIN log : /\ log[i].ip = c
                        /\ log[i].ok
                        /\ T - WINDOW_SECONDS < log[i].now
                        /\ log[i].now <= T}

AdmittedOf(c) == {i \in DOMAIN log : log[i].ip = c /\ log[i].ok}

\* C1: with _rate checks executed one after the other, for every client and
\* every instant T at most MAX_REQ admitted requests of the client have a
\* timestamp in (T - WINDOW_SECONDS, T].
C1_WindowBound ==
    \A c \in Clients : \A T \in 0..MaxTime : Cardinality(AdmittedIn(c, T)) <= MAX_REQ

\* a client with a full window, a rejected request and more than MAX_REQ
\* admissions over time
C1_Witness ==
    \E c \in Clients :
        /\ \E T \in 0..MaxTime : Cardinality(AdmittedIn(c, T)) = MAX_REQ
        /\ Cardinality(AdmittedOf(c)) > MAX_REQ
        /\ \E i \in DOMAIN log : log[i].ip = c /\ ~log[i].ok

\* C2: when _rate checks of one client interleave, still at most MAX_REQ
\* requests of the client are admitted with timestamps inside any window of
\* WINDOW_SECONDS.
C2_ConcurrentWindowBound ==
    \A T \in 0..MaxTime : \A c \in Clients :
        \A S \in SUBSET AdmittedIn(c, T) : Cardinality(S) <= MAX_REQ

\* the timestamps of c that a check at time n counts
Counted(c, n) == SelectSeq(Get(bucket, c), LAMBDA t : n - t < WINDOW_SECONDS)

\* C3: a check of client c at time now counts the stored timestamps t of c
\* with now - t < WINDOW_SECONDS; with MAX_REQ or more of them it rejects and
\* the map stays as it is; otherwise the stored sequence of c becomes the
\* counted timestamps followed by now.  Nothing else writes the map.
C3_CheckEffect ==
    [][ /\ \A p \in Procs :
            LET cnt == Counted(ip[p], now[p]) IN
            /\ (pc[p] = "rate58" /\ pc'[p] = "rate_raise")
                  => (Len(cnt) >= MAX_REQ /\ bucket' = bucket)
            /\ (pc[p] = "rate58" /\ pc'[p] = "rate60") => Len(cnt) < MAX_REQ
            /\ (pc[p] = "rate61" /\ pc'[p] = "rate_ret")
                  => /\ Len(cnt) < MAX_REQ
                     /\ DOMAIN bucket' = DOMAIN bucket \cup {ip[p]}
                     /\ bucket'[ip[p]] = Append(cnt, now[p])
                     /\ \A b \in DOMAIN bucket \ {ip[p]} : bucket'[b] = bucket[b]
        /\ bucket' # bucket => \E p \in Procs : pc[p] = "rate61" /\ pc'[p] = "rate_ret"
      ]_vars

\* an accepting check is about to write: it pruned a stale timestamp and
\* kept a fresh one, and an earlier check was rejected
C3_Witness ==
    /\ \E p \in Procs :
          /\ pc[p] = "rate61"
          /\ Len(xs[p]) >= 2
          /\ Len(Get(bucket, ip[p])) > Len(xs[p]) - 1
    /\ \E i \in DOMAIN log : ~log[i].ok

\* C4: when the first MAX_REQ requests of a client all come at one time T,
\* they are admitted; each later request of the client before
\* T + WINDOW_SECONDS is rejected; the first request at or after
\* T + WINDOW_SECONDS is admitted.
C4_BurstThenWindow ==
    \A c \in Clients :
        LET sub == SubLog(c)
            T == sub[1].now
            end == T + WINDOW_SECONDS
        IN  /\ \A i \in DOMAIN sub :
                  (i <= MAX_REQ /\ \A j \in 1..i : sub[j].now = T) => sub[i].ok
            /\ (Len(sub) >= MAX_REQ /\ \A j \in 1..MAX_REQ : sub[j].now = T)
                  => \A i \in DOMAIN sub :
                        i > MAX_REQ =>
                          /\ sub[i].now < end => ~sub[i].ok
                          /\ (/\ sub[i].now >= end
                              /\ \A j \in (MAX_REQ + 1)..(i - 1) : sub[j].now < end)
                                => sub[i].ok

\* MAX_REQ admitted at T, then a rejection inside the window, then an
\* admission at or after T + WINDOW_SECONDS
C4_Witness ==
    \E c \in Clients :
        LET sub == SubLog(c) IN
        /\ Len(sub) >= MAX_REQ + 2
        /\ \A j \in 1..MAX_REQ : sub[j].now = sub[1].now /\ sub[j].ok
        /\ ~sub[MAX_REQ + 1].ok
        /\ sub[MAX_REQ + 2].now >= sub[1].now + WINDOW_SECONDS
        /\ sub[MAX_REQ + 2].ok

\* the decisions a limiter that sees only the requests at the times ts takes,
\* starting with the stored timestamps st
RECURSIVE Alone(_, _)
Alone(ts, st) ==
    IF ts = <<>> THEN <<>>
    ELSE LET n == Head(ts)
             kept == SelectSeq(st, LAMBDA t : n - t < WINDOW_SECONDS)
         IN IF Len(kept) >= MAX_REQ
            THEN <<FALSE>> \o Alone(Tail(ts), st)
            ELSE <<TRUE>> \o Alone(Tail(ts), Append(kept, n))

\* the decisions on the requests of c equal those of a limiter that serves
\* c alone
OwnHistoryOnly ==
    \A c \in Clients :
        LET sub == SubLog(c) IN
        [i \in DOMAIN sub |-> sub[i].ok] = Alone([i \in DOMAIN sub |-> sub[i].now], <<>>)

\* C5: a check of client a leaves the stored sequence of every other client
\* as it is, and whether a request of a is admitted depends only on the
\* earlier requests of a and their times.
C5_NoInterference ==
    [][ /\ \A p \in Procs : \A b \in Clients :
            (InRate(p) /\ pc'[p] # pc[p] /\ b # ip[p])
               => /\ (b \in DOMAIN bucket') = (b \in DOMAIN bucket)
                  /\ Get(bucket', b) = Get(bucket, b)
        /\ OwnHistoryOnly'
      ]_vars

\* one client is at its limit and rejected while the other, served in
\* between, is admitted and both have stored timestamps
C5_Witness ==
    \E a, b \in Clients :
        /\ a # b
        /\ \E i, j, k \in DOMAIN log :
              /\ i < j /\ j < k
              /\ log[i].ip = a /\ log[i].ok
              /\ log[j].ip = b /\ log[j].ok
              /\ log[k].ip = a /\ ~log[k].ok
        /\ Get(bucket, a) # <<>> /\ Get(bucket, b) # <<>>

Last(s) == s[Len(s)]

WrapPcs == {"w105", "w106", "w108", "w117", "w118", "w124", "w_ret", "w_raise"}

\* C6: a transient failure is retried exactly when fewer than `retries`
\* retries have been used; a success ends the call with that success; with
\* the budget used up the error of the last attempt is raised and no further
\* attempt is made.  With retries = 1: transient then success returns, two
\* transient errors raise the second one after two attempts.
C6_TransientRetry ==
    \A p \in Procs :
        LET n == Len(calls[p]) IN
        /\ n <= retries[p] + 1
        /\ \A i \in 1..(n - 1) : calls[p][i] \in Transient
        /\ pc[p] = "w117" => calls[p][n] \in Transient
        /\ pc[p] = "w118" => (calls[p][n] \in Transient /\ n - 1 < retries[p])
        /\ (pc[p] \in {"w124", "w_raise"} /\ n > 0 /\ calls[p][n] \in Transient)
              => n - 1 >= retries[p]
        /\ (n > 0 /\ calls[p][n] = "ok") => pc[p] \in {"w_ret", "done"}
        /\ pc[p] = "w_ret" => (n > 0 /\ calls[p][n] = "ok")
        /\ pc[p] = "w_raise"
              => (n > 0 /\ calls[p][n] \in ErrKinds /\ last_err[p] = MkErr(calls[p][n], n))
        /\ (retries[p] = 1 /\ n = 2 /\ calls[p][2] \in Transient)
              => pc[p] \in {"w117", "w124", "w_raise", "done"}

\* with retries = 1, two different transient errors: the second one is raised
C6_Witness ==
    \E p \in Procs :
        /\ retries[p] = 1
        /\ pc[p] = "w_raise"
        /\ Len(calls[p]) = 2
        /\ calls[p][1] \in Transient /\ calls[p][2] \in Transient
        /\ calls[p][1] # calls[p][2]
        /\ last_err[p].kind = calls[p][2]

\* C7: a terminal error ends the call at once, whatever the budget: it is the
\* last attempt, it is the error raised, and no backoff wait follows it; on
\* the first attempt that is one attempt and no retry.
C7_TerminalAtOnce ==
    \A p \in Procs : \A i \in DOMAIN calls[p] :
        calls[p][i] \in Terminal
          => /\ i = Len(calls[p])
             /\ pc[p] \in {"w124", "w_raise", "done"}
             /\ waits[p] <= i - 1
             /\ pc[p] # "done" => last_err[p] = MkErr(calls[p][i], i)
             /\ i = 1 => waits[p] = 0

\* a budget of two retries left unused: the first attempt fails terminally
C7_Witness ==
    \E p \in Procs :
        /\ retries[p] = MaxRetries
        /\ calls[p] = <<"Exception">>
        /\ pc[p] = "w_raise"
        /\ waits[p] = 0

\* C8: a /chat request is checked by _rate before anything else; a rejected
\* request ends with 429 and the Too Many Requests message and never with
\* 503, and no upstream attempt is made for it; upstream attempts are made
\* only for admitted requests.
C8_RateFirst ==
    \A p \in Procs :
        /\ (InRate(p) \/ pc[p] = "rate_raise") => (calls[p] = <<>> /\ msgs[p] = <<>>)
        /\ adm[p] = "rejected"
              => /\ pc[p] \in {"rate_raise", "done"}
                 /\ calls[p] = <<>>
                 /\ pc[p] = "done"
                       => resp[p] = [status |-> 429, detail |-> TOO_MANY, reply |-> <<>>]
        /\ (calls[p] # <<>> \/ pc[p] \in WrapPcs) => adm[p] = "admitted"
        /\ (pc[p] = "done" /\ resp[p].status = 429) => adm[p] = "rejected"

\* a rejected request has been answered
C8_Witness ==
    \E p \in Procs : pc[p] = "done" /\ adm[p] = "rejected" /\ resp[p].status = 429

\* C9: every failure of the upstream call of an admitted request, terminal
\* or transient with the budget of 1 used up, is answered with 503 and the
\* fixed message; the response does not carry the detail of the error.
C9_Generic503 ==
    \A p \in Procs :
        /\ pc[p] = "w_raise" => (calls[p] # <<>> /\ Last(calls[p]) \in ErrKinds)
        /\ (pc[p] = "done" /\ calls[p] # <<>> /\ Last(calls[p]) \in ErrKinds)
              => /\ resp[p] = [status |-> 503, detail |-> GENERIC_503, reply |-> <<>>]
                 /\ resp[p].detail # logged[p].detail
                 /\ logged[p].kind = Last(calls[p])
        /\ (pc[p] = "done" /\ resp[p].status = 503)
              => /\ adm[p] = "admitted"
                 /\ \/ (Len(calls[p]) = 1 /\ calls[p][1] \in Terminal)
                    \/ (Len(calls[p]) = 2 /\ calls[p][1] \in Transient
                                          /\ calls[p][2] \in ErrKinds)

\* two transient errors used the budget up and the request was answered
C9_Witness ==
    \E p \in Procs :
        /\ pc[p] = "done"
        /\ resp[p].status = 503
        /\ Len(calls[p]) = 2
        /\ calls[p][2] \in Transient

Min(a, b) == IF a <= b THEN a ELSE b

\* C10: the list handed to the wrapper is the system prompt followed by the
\* last min(k, HISTORY_LIMIT) of the k caller messages in their order; its
\* length is between 1 and HISTORY_LIMIT + 1; for no caller message it is the
\* system prompt alone and the upstream call is still made.
C10_HistoryWindow ==
    \A p \in Procs :
        LET k == Len(body[p])
            n == Min(k, HISTORY_LIMIT)
        IN  /\ (pc[p] \in WrapPcs \/ (pc[p] = "done" /\ adm[p] = "admitted"))
                  => /\ Len(msgs[p]) = n + 1
                     /\ msgs[p][1] = SYSTEM_PROMPT
                     /\ \A i \in 1..n : msgs[p][i + 1] = body[p][k - n + i]
                     /\ 1 <= Len(msgs[p]) /\ Len(msgs[p]) <= HISTORY_LIMIT + 1
                     /\ k = 0 => msgs[p] = <<SYSTEM_PROMPT>>
            /\ (pc[p] = "done" /\ adm[p] = "admitted") => calls[p] # <<>>

\* more caller messages than HISTORY_LIMIT, cut down and handed over
C10_Witness ==
    \E p \in Procs :
        /\ Len(body[p]) > HISTORY_LIMIT
        /\ pc[p] = "w108"
        /\ Len(msgs[p]) = HISTORY_LIMIT + 1

\* s without the blanks before its first and after its last other character
Trimmed(s, r) ==
    \/ r = <<>> /\ \A i \in DOMAIN s : s[i] = " "
    \/ \E i, j \in DOMAIN s :
          /\ i <= j
          /\ r = SubSeq(s, i, j)
          /\ s[i] # " " /\ s[j] # " "
          /\ \A k \in DOMAIN s : (k < i \/ k > j) => s[k] = " "

\* C11: when the upstream call succeeds /chat answers 200 with the content
\* stripped of surrounding blanks; absent, empty or blank content gives the
\* fixed placeholder, so the reply of a success is never empty.
C11_ReplyNeverEmpty ==
    \A p \in Procs :
        /\ (pc[p] = "done" /\ calls[p] # <<>> /\ Last(calls[p]) = "ok")
              => resp[p].status = 200
        /\ (pc[p] = "done" /\ resp[p].status = 200)
              => /\ calls[p] # <<>> /\ Last(calls[p]) = "ok"
                 /\ resp[p].reply # <<>>
                 /\ resp[p].detail = ""
                 /\ LET c == result[p]
                        blank == c.isNone \/ \A i \in DOMAIN c.text : c.text[i] = " "
                    IN IF blank THEN resp[p].reply = PLACEHOLDER
                       ELSE Trimmed(c.text, resp[p].reply)

\* a success whose content is only a blank has been answered
C11_Witness ==
    \E p \in Procs :
        /\ pc[p] = "done"
        /\ resp[p].status = 200
        /\ result[p] = Text(<<" ">>)
        /\ resp[p].reply = PLACEHOLDER

\* C12: whatever the state (rate limiter full or not, upstream failing, any
\* earlier /chat requests) /health can be served and answers {"status": "ok"};
\* it is not rate limited, makes no upstream attempt and leaves the
\* rate-limiter map as it is.
C12_HealthAlwaysOk ==
    [][ \A p \in HealthThreads :
          /\ pc[p] = "idle" => ENABLED Health(p)
          /\ pc'[p] = "done" => resp'[p] = HEALTH_OK
          /\ pc'[p] \in {"idle", "done"}
          /\ (pc[p] = "idle" /\ pc'[p] # "idle")
                => /\ pc'[p] = "done"
                   /\ bucket' = bucket
                   /\ log' = log
                   /\ calls' = calls /\ waits' = waits /\ adm' = adm
      ]_vars

\* /health answered while a client is at its limit and the upstream call of
\* a request has failed twice
C12_Witness ==
    /\ \E p \in HealthThreads : pc[p] = "done" /\ resp[p] = HEALTH_OK
    /\ \E c \in DOMAIN bucket : Len(bucket[c]) = MAX_REQ
    /\ \E p \in Workers : pc[p] = "w117" /\ Len(calls[p]) = 2

\* the wrapper has returned a result or raised an error
Ended(p) == pc[p] \in {"w_ret", "w_raise"}

\* C13: for every budget retries >= 0 and every sequence of attempt outcomes
\* the wrapper ends, either returning a result or raising an error, after at
\* least 1 and at most retries + 1 attempts.
C13_Terminates ==
    <>[](\A p \in Procs :
            /\ Ended(p)
            /\ 1 <= Len(calls[p]) /\ Len(calls[p]) <= retries[p] + 1
            /\ pc[p] = "w_ret" <=> Last(calls[p]) = "ok"
            /\ pc[p] = "w_raise" <=> last_err[p] # NoErr)

\* one call returns on its last allowed attempt, the other raises on its first
C13_Witness ==
    \E p, q \in Procs :
        /\ pc[p] = "w_ret" /\ retries[p] = MaxRetries /\ Len(calls[p]) = MaxRetries + 1
        /\ pc[q] = "w_raise" /\ Len(calls[q]) = 1

\* C14: a backoff wait happens only after a transient failure that is
\* followed by another attempt: each attempt after the first has exactly one
\* wait before it, none follows a success, a terminal failure or the
\* transient failure that uses the budget up, so waits = attempts - 1.
C14_WaitsBetweenAttempts ==
    \A p \in Procs :
        LET n == Len(calls[p]) IN
        /\ pc[p] \in {"w105", "w106", "w108"} => waits[p] = n
        /\ pc[p] \in {"w117", "w118", "w124", "w_ret", "w_raise"} => waits[p] = n - 1
        /\ pc[p] = "w118" => (calls[p][n] \in Transient /\ n <= retries[p])
        /\ (pc[p] = "w106" /\ n > 0) => (calls[p][n] \in Transient /\ n <= retries[p])

\* three attempts with two waits between them, ended by the transient
\* failure that uses the budget up
C14_Witness ==
    \E p \in Procs :
        /\ pc[p] = "w_raise"
        /\ Len(calls[p]) = MaxRetries + 1
        /\ Last(calls[p]) \in Transient
        /\ waits[p] = MaxRetries

\* C15: stale timestamps are never counted: the list a check compares with
\* the threshold holds no timestamp t with now - t >= WINDOW_SECONDS, and
\* right after an admitted check of client c every timestamp stored for c
\* satisfies now - t < WINDOW_SECONDS; until a check, stale ones stay stored.
C15_StaleNeverCounted ==
    [][ \A p \in Procs :
          /\ pc[p] \in {"rate58", "rate60", "rate61"}
                => \A i \in DOMAIN xs[p] : now[p] - xs[p][i] < WINDOW_SECONDS
          /\ (pc[p] = "rate61" /\ pc'[p] = "rate_ret")
                => \A i \in DOMAIN bucket'[ip[p]] :
                      now[p] - bucket'[ip[p]][i] < WINDOW_SECONDS
      ]_vars

\* a check that found a stale timestamp stored and left it out of its count
C15_Witness ==
    \E p \in Procs :
        /\ pc[p] = "rate58"
        /\ xs[p] # <<>>
        /\ \E i \in DOMAIN Get(bucket, ip[p]) :
              now[p] - Get(bucket, ip[p])[i] >= WINDOW_SECONDS

\* C16: no step removes a client id from the map: the set of keys only
\* grows, and a client that had a request admitted is a key from then on,
\* however much time passes and whatever other requests occur.
C16_KeysOnlyGrow ==
    [][ /\ DOMAIN bucket \subseteq DOMAIN bucket'
        /\ \A i \in DOMAIN log' : log'[i].ok => log'[i].ip \in DOMAIN bucket'
      ]_vars

\* a key whose timestamps are all stale is still there after a later
\* admission of another client
C16_Witness ==
    \E a, b \in DOMAIN bucket :
        /\ a # b
        /\ \A i \in DOMAIN bucket[a] : clock - bucket[a][i] >= WINDOW_SECONDS
        /\ \E i \in DOMAIN bucket[b] : bucket[b][i] = clock

\* C17: after _rate checks executed one after the other every key of the
\* map holds at least 1 and at most MAX_REQ timestamps.
C17_ListSizes ==
    \A c \in DOMAIN bucket : 1 <= Len(bucket[c]) /\ Len(bucket[c]) <= MAX_REQ

\* one key is full, another holds a single timestamp that has gone stale
C17_Witness ==
    \E a, b \in DOMAIN bucket :
        /\ Len(bucket[a]) = MAX_REQ
        /\ Len(bucket[b]) = 1
        /\ clock - bucket[b][1] >= WINDOW_SECONDS

\* the request of thread p was admitted and its timestamp, the one of the
\* latest decision of _rate, is the newest stored for its client
Recorded(p) ==
    /\ log # <<>>
    /\ Last(log) = [ip |-> ip[p], now |-> Last(log).now, ok |-> TRUE]
    /\ Get(bucket, ip[p]) # <<>>
    /\ Last(Get(bucket, ip[p])) = Last(log).now

\* C18: an admitted /chat request uses quota whatever happens upstream: its
\* timestamp is stored before the upstream call starts and is still stored
\* when the call has failed with 503 or succeeded, and no step of the
\* upstream call, its waits or the answer changes the rate-limiter map.
C18_QuotaKept ==
    [][ /\ \A p \in Workers :
            /\ (pc'[p] \in WrapPcs \/ pc'[p] = "rate_ret") => Recorded(p)'
            /\ (pc'[p] = "done" /\ resp'[p].status \in {200, 503}) => Recorded(p)'
            /\ (pc[p] \in WrapPcs \/ pc[p] \in {"rate_ret", "rate_raise", "done"})
                  => bucket' = bucket
        /\ bucket' # bucket => \E p \in Workers : pc[p] = "rate61"
      ]_vars

\* a request answered with 503 whose timestamp fills the window of its client
C18_Witness ==
    \E p \in Workers :
        /\ pc[p] = "done"
        /\ resp[p].status = 503
        /\ Len(Get(bucket, ip[p])) = MAX_REQ
        /\ Last(Get(bucket, ip[p])) = Last(log).now

\* the admitted requests of c at time t, and the copies of t stored for c
AdmittedAt(c, t) == {i \in DOMAIN log : log[i].ip = c /\ log[i].ok /\ log[i].now = t}
StoredAt(c, t) == {k \in DOMAIN Get(bucket, c) : Get(bucket, c)[k] = t}

\* a later admitted check of c came late enough to prune t
PrunedBy(c, t) ==
    \E j \in DOMAIN log :
        log[j].ip = c /\ log[j].ok /\ log[j].now - t >= WINDOW_SECONDS

\* C19: no admitted request is lost: the timestamp of every admitted request
\* of client c stays stored for c until a later check of c prunes it, also
\* when checks of c interleave (no write-back overwrites a timestamp that
\* another check appended).
C19_NoAdmittedLost ==
    \A c \in Clients : \A t \in 0..MaxTime :
        ~PrunedBy(c, t) => Cardinality(StoredAt(c, t)) >= Cardinality(AdmittedAt(c, t))

====
